---- MODULE Spec2Model ----
(***************************************************************************)
(* A model of the Kitsu add-on of Stax: the Load Timeline operator, the    *)
(* timer callback build_progressive that builds the timeline by chunks,    *)
(* the sequence builders of blender_kitsu_utils.sequencer and the review   *)
(* builder.                                                                *)
(*                                                                         *)
(* Data the source fetches from the tracker behind a TODO (kitsu_shots,    *)
(* the matched last_version, a version's movie_path and status, the notes) *)
(* are inputs drawn from bounded sets.  Everything the source does write   *)
(* is modelled with Python's semantics, exceptions included: an exception  *)
(* that leaves a timer callback unregisters the timer, one that leaves an  *)
(* operator's execute ends the operator where it stands.                   *)
(***************************************************************************)
EXTENDS Integers, Sequences, FiniteSets, TLC

VARIABLES
    counter,                \* ops_timeline.counter (module global)
    frame_offset,           \* ops_timeline.frame_offset (module global)
    sequences,              \* scene.sequence_editor.sequences
    tracks,                 \* scene.tracks
    frame_end,              \* scene.frame_end
    frame_current,          \* scene.frame_current
    session_last_update,    \* scene.stax_info.session_last_update
    playing,                \* context.screen.is_animation_playing
    timers,                 \* the functools.partial objects given to bpy.app.timers
    last,                   \* what the last handler call did (observation)
    loads,                  \* the executions of Load Timeline so far (observation)
    clock,                  \* datetime.now()
    tracker,                \* the tracker's data: the shots and their last versions
    review,                 \* the function-level run of edit_review (observation)
    session                 \* ops_session: the authentication operator, the user
                            \* configuration and scene.session_logged_in

vars == <<counter, frame_offset, sequences, tracks, frame_end, frame_current,
          session_last_update, playing, timers, last, loads, clock, tracker,
          review, session>>

(***************************************************************************)
(* Bounds of the model.                                                    *)
(***************************************************************************)
MaxQueue == 13
MaxShots == 3
MaxLoads == 2
MaxNotes == 2
MaxShared == 6
MaxVersions == 2

(***************************************************************************)
(* Python values.  An int that may be None is a record; None is falsy and  *)
(* so is 0.  Arithmetic on None raises TypeError.                          *)
(***************************************************************************)
PyInt(n) == [none |-> FALSE, n |-> n]
PyNone == [none |-> TRUE, n |-> 0]
Truthy(x) == ~x.none /\ x.n # 0

\* A list index as Python sees it: an int, a str (one character) or None.
IntIndex(i) == [kind |-> "int", i |-> i, s |-> ""]
StrIndex(c) == [kind |-> "str", i |-> 0, s |-> c]
NoneIndex == [kind |-> "None", i |-> 0, s |-> ""]

\* A str is the sequence of its characters.
Digits == <<"0", "1", "2", "3", "4", "5", "6", "7", "8", "9">>
Numbered(prefix, i) == prefix \o <<Digits[(i \div 10) + 1], Digits[(i % 10) + 1]>>

\* A tracker version; None is the version with the empty id.
NoVersion == [id |-> <<>>, movie_path |-> "", status |-> ""]
Version(id, path, status) == [id |-> id, movie_path |-> path, status |-> status]

\* A tracker shot.
Shot(name, duration) == [name |-> name, duration |-> duration]

(***************************************************************************)
(* blender_kitsu_utils.sequencer                                           *)
(***************************************************************************)

\* get_shot_seq_name: f"{kitsu_shot.name}_{task_name}".
get_shot_seq_name(task_name, kitsu_shot) == kitsu_shot.name \o <<"_">> \o task_name

\* get_version_seq_name is called by create_version_sequence and defined nowhere
\* in the sources: the name of a version's strip is the version's identifier.
get_version_seq_name(kitsu_version) == kitsu_version.id

\* DurationMissing with the test dropped.
DurationNeverMissing(duration) == FALSE

\* `if not duration` of create_shot_stack: None and 0 are both falsy.
DurationMissing(duration) == ~Truthy(duration)

\* create_shot_stack: raises ValueError for a shot without duration, otherwise
\* appends a meta strip (the ShotContainer) at (channel_index, frame_start).
\* The host's new_meta takes an int frame: None raises TypeError.
create_shot_stack(channel_name, seqs, kitsu_shot, channel_index, frame_start) ==
    IF DurationMissing(kitsu_shot.duration)
    THEN [error |-> "ValueError", sequences |-> seqs]
    ELSE IF frame_start.none
    THEN [error |-> "TypeError", sequences |-> seqs]
    ELSE [error |-> "",
          sequences |-> Append(seqs,
              [name |-> get_shot_seq_name(channel_name, kitsu_shot),
               channel |-> channel_index,
               frame_start |-> frame_start.n,
               frame_final_duration |-> kitsu_shot.duration.n,
               stax_meta_usage |-> "Versions",
               kitsu_shot |-> kitsu_shot.name,
               sequences |-> <<>>])]

\* build_orio_status with the two states exchanged.
build_orio_status_swapped(available_statuses, version_status) ==
    IF version_status \in available_statuses.rejected THEN "approved"
    ELSE IF version_status \in available_statuses.approved THEN "rejected"
    ELSE "waiting review"

\* build_orio_status: the state of the ORIO status built from a raw status;
\* the rejected set is tested first.
build_orio_status(available_statuses, version_status) ==
    IF version_status \in available_statuses.rejected THEN "rejected"
    ELSE IF version_status \in available_statuses.approved THEN "approved"
    ELSE "waiting review"

\* get_kitsu_statuses() is a TODO of the source: the taxonomy of the project.
get_kitsu_statuses == [approved |-> {"validated"}, rejected |-> {"revision_needed"}]

\* The positional parameters create_version_sequence requires:
\* self, shot_stack, kitsu_version.
create_version_sequence_required == 3

\* A call with nargs positional arguments binds only when every required
\* parameter gets one; otherwise Python raises TypeError before the body runs.
CallBinds(nargs) == nargs >= create_version_sequence_required

\* The sentinel of create_version_sequence: a strip of that name, or of that
\* name prefixed by "stax.", is already in the shot stack.
VersionExists(shot_stack, version_name) ==
    \E k \in 1..Len(shot_stack.sequences) :
        \/ shot_stack.sequences[k].name = version_name
        \/ shot_stack.sequences[k].name = <<"stax.">> \o version_name

\* new_image, new_sound and new_movie are the host's: the strip they return is
\* nothing (`if not sequence`) for a file the host rejects.
HostCreates(path) == path # "rejected.mp4"

\* The body of create_version_sequence on (shot_stack, kitsu_version,
\* channel_index), channel_index 0 standing for None: the shot stack with the
\* strip of the version added, and whether a strip was returned.
create_version_sequence(shot_stack, kitsu_version, channel_index) ==
    LET version_name == get_version_seq_name(kitsu_version)
        channel == IF channel_index = 0
                   THEN Len(shot_stack.sequences) + 1
                   ELSE channel_index
    IN  IF VersionExists(shot_stack, version_name)
        THEN [shot_stack |-> shot_stack, created |-> FALSE]
        ELSE IF kitsu_version.movie_path = ""
        THEN [shot_stack |-> shot_stack, created |-> FALSE]
        ELSE IF ~HostCreates(kitsu_version.movie_path)
        THEN [shot_stack |-> shot_stack, created |-> FALSE]
        ELSE [shot_stack |->
                [shot_stack EXCEPT !.sequences = Append(@,
                    [name |-> version_name,
                     channel |-> channel,
                     frame_start |-> shot_stack.frame_start,
                     current_status |->
                        build_orio_status(get_kitsu_statuses, kitsu_version.status),
                     kitsu_version |-> kitsu_version.id,
                     lock |-> FALSE,
                     to_build_notes |-> FALSE,
                     reviews_built |-> 0])],
              created |-> TRUE]


(***************************************************************************)
(* stax_kitsu_ui.ops.ops_timeline: build_progressive                       *)
(***************************************************************************)

\* How many versions are added at a time: range(5).
BatchSize == 5

\* PlaybackGuard with the test dropped.
PlaybackGuardDropped(is_animation_playing) == FALSE

\* `if context.screen.is_animation_playing: return 1`.
PlaybackGuard(is_animation_playing) == is_animation_playing

\* Stopper firing one entry early.
StopperEarly(c, queue) == c + 1 >= Len(queue)

\* The stopper: `if counter >= len(versions_and_reviews)`.
Stopper(c, queue) == c >= Len(queue)

\* ShotFrameStart without the reset on the first shot.
ShotFrameStartNoReset(shot_index, offset) == offset

\* The frame the shot stack is created at: `frame_offset if shot_index != 0 else 0`.
ShotFrameStart(shot_index, offset) == IF shot_index # 0 THEN offset ELSE PyInt(0)

\* "Offset shots": reset on the first shot, accumulate otherwise.  The sum
\* with None raises TypeError.
NextFrameOffset(shot_index, offset, shot_duration) ==
    IF shot_index = 0 THEN [error |-> "", value |-> shot_duration]
    ELSE IF offset.none \/ shot_duration.none
    THEN [error |-> "TypeError", value |-> offset]
    ELSE [error |-> "", value |-> PyInt(offset.n + shot_duration.n)]

\* The state a call of build_progressive works on.
Machine(c, offset, seqs, frame) ==
    [counter |-> c, frame_offset |-> offset, sequences |-> seqs,
     frame_current |-> frame, processed |-> 0, ret |-> "run", error |-> ""]

Raise(m, error) == [m EXCEPT !.ret = "raise", !.error = error]

\* The stopper's branch: view_all, refresh_all, deselect, then the playhead
\* goes to the first strip named shot_to_load, and build_progressive returns
\* None (the timer is not rescheduled).
Finalize(t, m) ==
    LET hits == {k \in 1..Len(m.sequences) : m.sequences[k].name = t.shot_to_load}
        first == CHOOSE k \in hits : \A h \in hits : k <= h
    IN  [m EXCEPT !.ret = "None",
                  !.frame_current = IF t.shot_to_load # <<>> /\ hits # {}
                                    THEN m.sequences[first].frame_start
                                    ELSE @]

\* "Create version in meta": create_shot_stack, then the call
\* create_version_sequence(shot_seq, version) with its two positional
\* arguments, then the flags on the returned strip and the stack's duration.
BuildVersion(m, task_name, task_index, kitsu_shot, shot_index, version) ==
    LET stack == create_shot_stack(task_name, m.sequences, kitsu_shot,
                                   task_index + 1,
                                   ShotFrameStart(shot_index, m.frame_offset))
        at == Len(stack.sequences)
        made == create_version_sequence(stack.sequences[at], version, 0)
        n == Len(made.shot_stack.sequences)
        flagged == IF made.created
                   THEN [made.shot_stack EXCEPT !.sequences[n].lock = TRUE,
                                                !.sequences[n].to_build_notes = TRUE]
                   ELSE made.shot_stack
    IN  IF stack.error # "" THEN Raise(m, stack.error)
        ELSE IF ~CallBinds(2)
        THEN Raise([m EXCEPT !.sequences = stack.sequences], "TypeError")
        ELSE [m EXCEPT !.sequences =
                [stack.sequences EXCEPT ![at] =
                    [flagged EXCEPT !.frame_final_duration = kitsu_shot.duration.n]]]

\* One pass of the loop body below the stopper, for the entry under the cursor.
ProcessEntry(t, m) ==
    LET entry == t.versions_and_reviews[m.counter + 1]
        task_index == entry.task_index
        shot_index == entry.shot_index
    IN  IF task_index.kind # "int" THEN Raise(m, "TypeError")
        ELSE IF task_index.i >= Len(t.selected_tasks) \/ shot_index >= Len(t.kitsu_shots)
        THEN Raise(m, "IndexError")
        ELSE
        LET task_name == t.selected_tasks[task_index.i + 1]
            kitsu_shot == t.kitsu_shots[shot_index + 1]
            shot_duration == kitsu_shot.duration
            built == IF entry.version # NoVersion
                     THEN BuildVersion(m, task_name, task_index.i, kitsu_shot,
                                       shot_index, entry.version)
                     ELSE m
            offset == NextFrameOffset(shot_index, built.frame_offset, shot_duration)
        IN  IF built.ret = "raise" THEN built
            ELSE IF offset.error # "" THEN Raise(built, offset.error)
            ELSE [built EXCEPT !.frame_offset = offset.value,
                               !.counter = @ + 1,
                               !.processed = @ + 1]

\* `for _ in range(5)`: the stopper, then the entry; `return 0` after the loop.
RECURSIVE Loop(_, _, _)
Loop(t, m, pass) ==
    IF m.ret # "run" THEN m
    ELSE IF pass > BatchSize THEN [m EXCEPT !.ret = "0"]
    ELSE IF Stopper(m.counter, t.versions_and_reviews) THEN Finalize(t, m)
    ELSE Loop(t, ProcessEntry(t, m), pass + 1)

\* build_progressive as called by the timer: the playback guard returns 1
\* before anything is read.
build_progressive(t, m) ==
    IF PlaybackGuard(playing) THEN [m EXCEPT !.ret = "1"]
    ELSE Loop(t, m, 1)


(***************************************************************************)
(* The timer and the host                                                  *)
(***************************************************************************)

\* functools.partial(build_progressive, context, selected_channels,
\* kitsu_shots, editing_versions_mapping, scene.shot_to_load), as registered,
\* with what its calls did so far.
Timer(selected_tasks, kitsu_shots, versions_and_reviews, shot_to_load) ==
    [selected_tasks |-> selected_tasks,
     kitsu_shots |-> kitsu_shots,
     versions_and_reviews |-> versions_and_reviews,
     shot_to_load |-> shot_to_load,
     state |-> "registered",
     batches |-> <<>>,
     finalized |-> 0]

NoCall == [op |-> "none", timer |-> 0, playing |-> FALSE, before |-> 0,
           offset_before |-> PyInt(0), seqs_before |-> <<>>, processed |-> 0,
           ret |-> "", error |-> "", report |-> "", date |-> 0,
           date_before |-> 0, kitsu_versions |-> 0, kitsu_notes |-> 0]

NoReview == [ran |-> FALSE]

NoTracker == [kitsu_shots |-> <<>>, has |-> FALSE]

\* The properties of the authentication operator at their defaults, a user
\* configuration without any key, and the session before any of its handlers
\* ran.
NoProperties == [login |-> "", password |-> "", save_credentials |-> FALSE,
                 auto_login |-> FALSE]

NoConfig == [keys |-> {}, auto_login |-> FALSE, save_credentials |-> FALSE,
             password |-> ""]

NoSession == [self |-> NoProperties, config |-> NoConfig, author_name |-> "",
              session_logged_in |-> FALSE, dialog |-> FALSE, started |-> FALSE,
              op |-> "none", authenticated |-> "", before |-> NoProperties,
              written |-> <<>>]

\* The host calls the registered timer k.  A return of 0 or 1 reschedules it,
\* None ends it, an exception unregisters it.
BuildTick(k) ==
    /\ timers[k].state = "registered"
    /\ LET t == timers[k]
           m == build_progressive(t, Machine(counter, frame_offset, sequences,
                                             frame_current))
       IN  /\ counter' = m.counter
           /\ frame_offset' = m.frame_offset
           /\ sequences' = m.sequences
           /\ frame_current' = m.frame_current
           /\ timers' = [timers EXCEPT
                  ![k].state = CASE m.ret = "None" -> "done"
                                 [] m.ret = "raise" -> "raised"
                                 [] OTHER -> "registered",
                  ![k].batches = IF m.ret = "1" THEN @ ELSE Append(@, m.processed),
                  ![k].finalized = IF m.ret = "None" THEN @ + 1 ELSE @]
           /\ last' = [NoCall EXCEPT
                          !.op = "build", !.timer = k, !.playing = playing,
                          !.before = counter, !.offset_before = frame_offset,
                          !.seqs_before = sequences, !.processed = m.processed,
                          !.ret = m.ret, !.error = m.error]
    /\ UNCHANGED <<tracks, frame_end, session_last_update, playing, loads, clock,
                   tracker, review,
                   session>>

\* frame_build_review, the frame-change handler, when the media sequence of
\* the active strip is strip s of shot stack c (0 for no strip): nothing
\* while the animation plays, nothing without the to_build_notes flag;
\* otherwise the review of the version is built into the strip and the flag
\* is disabled.
FrameBuildReview(c, s) ==
    LET built == ~playing /\ c > 0 /\ s > 0
                 /\ sequences[c].sequences[s].to_build_notes
    IN  /\ sequences' = IF built
                        THEN [sequences EXCEPT
                                ![c].sequences[s].reviews_built = @ + 1,
                                ![c].sequences[s].to_build_notes = FALSE]
                        ELSE sequences
        /\ last' = IF built
                   THEN [NoCall EXCEPT !.op = "frame", !.playing = playing]
                   ELSE last
        /\ UNCHANGED <<counter, frame_offset, tracks, frame_end, frame_current,
                       session_last_update, playing, timers, loads, clock,
                       tracker, review,
                   session>>

\* The media sequences the handler may find under the active strip of shot
\* stack c.
MediaSequences(c) == IF c = 0 THEN {0} ELSE 0..Len(sequences[c].sequences)

\* The user starts or stops playback.
TogglePlayback ==
    /\ playing' = ~playing
    /\ UNCHANGED <<counter, frame_offset, sequences, tracks, frame_end,
                   frame_current, session_last_update, timers, last, loads, clock,
                   tracker, review,
                   session>>

(***************************************************************************)
(* Spec: build_progressive as a step function on the arguments a caller    *)
(* registers it with, from the module's initial globals.                   *)
(***************************************************************************)

\* The durations of the spec's example, continued.
BaseDuration(j) == CASE j = 0 -> 24 [] j = 1 -> 48 [] j = 2 -> 12 [] OTHER -> 6 * j

\* n shots in timeline order; shot `bad` (n for none) has the duration badDur.
Shots(n, bad, badDur) ==
    [j \in 1..n |-> Shot(Numbered(<<"s", "h">>, j - 1),
                         IF j - 1 = bad THEN badDur ELSE PyInt(BaseDuration(j - 1)))]

Tasks(n) == [i \in 1..n |-> Numbered(<<"c", "h">>, i - 1)]

TasksFor(nShots, qlen) == IF qlen = 0 THEN 1 ELSE (qlen + nShots - 1) \div nShots

\* A queue of qlen entries laid out as Load Timeline lays it out: the last
\* task first, the shots in order under each task.  Entry vpos (qlen for
\* none) carries a version, with or without a movie path.
Queue(nShots, qlen, vpos, path) ==
    [k \in 1..qlen |->
        [task_index |-> IntIndex(TasksFor(nShots, qlen) - 1 - ((k - 1) \div nShots)),
         shot_index |-> (k - 1) % nShots,
         version |-> IF k - 1 = vpos
                     THEN Version(Numbered(<<"v">>, k - 1), path, "validated")
                     ELSE NoVersion]]

All == <<"A", "l", "l">>

\* scene.shot_to_load: the name of a shot of the timeline, or "All".
ShotToLoad(nShots, to_load) ==
    IF to_load = nShots THEN All ELSE Numbered(<<"s", "h">>, to_load)

\* A version's movie path: none, a movie, a file the host rejects.
Paths == {"", "movie.mp4", "rejected.mp4"}


Init ==
    /\ counter = 0
    /\ frame_offset = PyInt(0)
    /\ sequences = <<>>
    /\ tracks = <<>>
    /\ frame_end = 0
    /\ frame_current = 0
    /\ session_last_update = 0
    /\ playing \in BOOLEAN
    /\ \E nShots \in 1..MaxShots, qlen \in 0..MaxQueue :
       \E vpos \in 0..qlen, path \in Paths, bad \in 0..nShots,
          badDur \in {PyNone, PyInt(0)} :
          /\ vpos = qlen => path = ""
          /\ bad = nShots => badDur = PyNone
          /\ timers = <<Timer(Tasks(TasksFor(nShots, qlen)),
                              Shots(nShots, bad, badDur),
                              Queue(nShots, qlen, vpos, path), All)>>
    /\ last = NoCall
    /\ loads = <<>>
    /\ clock = 1
    /\ tracker = NoTracker
    /\ review = NoReview
    /\ session = NoSession

Next ==
    \/ \E k \in 1..Len(timers) : BuildTick(k)
    \/ TogglePlayback
    \/ \E c \in 0..Len(sequences) : \E s \in MediaSequences(c) : FrameBuildReview(c, s)

Spec == Init /\ [][Next]_vars

(***************************************************************************)
(* SharedSpec: two partials of build_progressive registered at once, as    *)
(* two executions of Load Timeline on an empty timeline leave them.  Both  *)
(* work on the module's counter and frame_offset.                          *)
(***************************************************************************)

\* What is registered besides timer t: a second partial with the same
\* arguments, or the partial of a Load Timeline with no channel selected,
\* whose queue is empty.
Registered == {"twice", "empty"}
Registrations(t, others) ==
    IF others = "twice" THEN <<t, t>>
    ELSE <<t, Timer(<<>>, t.kitsu_shots, <<>>, t.shot_to_load)>>

SharedInit ==
    /\ counter = 0
    /\ frame_offset = PyInt(0)
    /\ sequences = <<>>
    /\ tracks = <<>>
    /\ frame_end = 0
    /\ frame_current = 0
    /\ session_last_update = 0
    /\ playing \in BOOLEAN
    /\ \E nShots \in 1..MaxShots, qlen \in 0..MaxShared :
       \E vpos \in 0..qlen, to_load \in 0..nShots, others \in Registered :
          timers = Registrations(
                      Timer(Tasks(TasksFor(nShots, qlen)),
                            Shots(nShots, nShots, PyNone),
                            Queue(nShots, qlen, vpos,
                                  IF vpos = qlen THEN "" ELSE "movie.mp4"),
                            ShotToLoad(nShots, to_load)),
                      others)
    /\ last = NoCall
    /\ loads = <<>>
    /\ clock = 1
    /\ tracker = NoTracker
    /\ review = NoReview
    /\ session = NoSession

SharedSpec == SharedInit /\ [][Next]_vars


(***************************************************************************)
(* Claims on build_progressive (under Spec)                                *)
(***************************************************************************)

LastBuild == last.op = "build"
LastRan == LastBuild /\ ~last.playing
LastTimer == timers[last.timer]
LastQueue == LastTimer.versions_and_reviews

\* Every shot of timer t has a duration (the data model's invariant).
DurationsResolved(t) ==
    \A j \in 1..Len(t.kitsu_shots) : Truthy(t.kitsu_shots[j].duration)

\* The entry under cursor c of timer t carries a version.
VersionAt(t, c) ==
    /\ c < Len(t.versions_and_reviews)
    /\ t.versions_and_reviews[c + 1].version # NoVersion

ShotAt(t, c) == t.kitsu_shots[t.versions_and_reviews[c + 1].shot_index + 1]

\* C1: every call of build_progressive that the playback guard does not skip
\* processes at most 5 entries and advances the cursor by one per processed
\* entry, and a queue of 13 entries (of shots that all have a duration) is
\* done after exactly 3 such calls, which process 5, 5 and 3 entries.
C1_BatchOf13 ==
    /\ LastRan => last.processed <= 5 /\ counter = last.before + last.processed
    /\ \A k \in 1..Len(timers) :
        LET t == timers[k]
        IN  (Len(t.versions_and_reviews) = 13 /\ DurationsResolved(t)) =>
                /\ t.state # "raised"
                /\ t.batches \in {<<>>, <<5>>, <<5, 5>>, <<5, 5, 3>>}
                /\ t.state = "done" <=> t.batches = <<5, 5, 3>>

\* C2: a call of build_progressive made while playback is active processes no
\* entry, leaves the sequences, the cursor and the frame offset as they were,
\* returns 1 (not done, call again) and stays registered.
C2_PlaybackGuard ==
    (LastBuild /\ last.playing) =>
        /\ last.ret = "1"
        /\ last.processed = 0
        /\ counter = last.before
        /\ frame_offset = last.offset_before
        /\ sequences = last.seqs_before
        /\ LastTimer.state = "registered"
        /\ LastTimer.finalized = 0

\* C2's case: a skipped call between two batches of a queue not yet drained.
C2_Witness ==
    /\ LastBuild /\ last.playing
    /\ counter > 0
    /\ counter < Len(LastQueue)

\* The sum of the durations of the first j shots.
RECURSIVE DurationSum(_, _)
DurationSum(shots, j) ==
    IF j = 0 THEN 0 ELSE DurationSum(shots, j - 1) + shots[j].duration.n

\* The positions of the shot named `name` in `shots`.
ShotIndexes(shots, name) == {j \in 1..Len(shots) : shots[j].name = name}

\* C5: a ShotContainer is created at the frame that is the sum of the
\* durations of the shots before its shot (0 for the first shot), on every
\* channel, whatever the entries before it carried.
C5_OffsetAccumulation ==
    \A k \in 1..Len(timers), c \in 1..Len(sequences) :
        \A j \in ShotIndexes(timers[k].kitsu_shots, sequences[c].kitsu_shot) :
            /\ \A i \in 1..(j - 1) : ~timers[k].kitsu_shots[i].duration.none
            /\ sequences[c].frame_start = DurationSum(timers[k].kitsu_shots, j - 1)

\* C5's case: with the durations 24, 48, 12 the container of the third shot is
\* at frame 72, on a channel that is not the first one built.
C5_Witness ==
    \E c \in 1..Len(sequences) :
        /\ sequences[c].kitsu_shot = Numbered(<<"s", "h">>, 2)
        /\ sequences[c].frame_start = 72
        /\ counter > 3

\* C8 as claimed: a call never returns 0 (not done) with the cursor at the
\* end of the queue.
C8_DoneInSameCall ==
    (LastRan /\ last.ret = "0") => counter # Len(LastQueue)

\* C8 amended: done is reported by the first call whose stopper finds the
\* cursor at the end.  That is the call that processes the last entry when it
\* has processed fewer than 5 entries, the empty queue included; a call that
\* processes 5 entries returns 0 even when its fifth entry was the last one,
\* and only the next call reports done.
C8_DoneAtStopper ==
    LastRan =>
        /\ last.ret = "0" => last.processed = 5 /\ counter <= Len(LastQueue)
        /\ last.ret = "None" =>
              /\ counter = Len(LastQueue)
              /\ last.processed = Len(LastQueue) - last.before
              /\ last.processed < 5
              /\ LastTimer.state = "done" /\ LastTimer.finalized = 1
        /\ (last.ret # "raise" /\ Len(LastQueue) - last.before = 5) =>
              last.ret = "0" /\ counter = Len(LastQueue)

\* C8's case: a call returned 0 with the cursor at the end of a queue.
C8_Witness ==
    /\ LastRan /\ last.ret = "0"
    /\ counter = Len(LastQueue)
    /\ LastTimer.state = "registered"

\* A versioned entry of timer t for a shot without duration.
Unbuildable(t, c) == VersionAt(t, c) /\ DurationMissing(ShotAt(t, c).duration)

\* C9 as claimed: a shot without duration does not abort the pass.
C9_ShotSkipped ==
    ~(LastBuild /\ last.error = "ValueError")

\* C9 amended: a shot without duration never gets a ShotContainer; the call
\* that reaches a versioned entry of such a shot raises ValueError there, with
\* the entries processed before it kept and the cursor left on that entry, and
\* the timer is not called again, so a build whose queue holds such an entry
\* never reports done.
C9_MissingDurationAborts ==
    /\ \A k \in 1..Len(timers), c \in 1..Len(sequences) :
          \A j \in ShotIndexes(timers[k].kitsu_shots, sequences[c].kitsu_shot) :
              Truthy(timers[k].kitsu_shots[j].duration)
    /\ (LastBuild /\ last.error = "ValueError") =>
          /\ Unbuildable(LastTimer, counter)
          /\ counter = last.before + last.processed
          /\ sequences = last.seqs_before
          /\ LastTimer.state = "raised"
    /\ \A k \in 1..Len(timers) :
          timers[k].state = "done" =>
              \A c \in 0..(Len(timers[k].versions_and_reviews) - 1) :
                  ~Unbuildable(timers[k], c)

\* C9's case: the ValueError of a shot without duration, after entries of
\* other shots were processed in the same call.
C9_Witness ==
    /\ LastBuild /\ last.error = "ValueError"
    /\ last.processed > 0
    /\ last.before > 0

\* C10: an entry whose version has no movie path (on a shot that has a
\* duration) raises nothing: the timer is never unregistered on such an entry.
C10_NoMediaSkipped ==
    \A k \in 1..Len(timers) :
        ~ /\ timers[k].state = "raised"
          /\ VersionAt(timers[k], counter)
          /\ timers[k].versions_and_reviews[counter + 1].version.movie_path = ""
          /\ Truthy(ShotAt(timers[k], counter).duration)


\* The entry the last call of build_progressive started on carries a version
\* with the movie path `path`, and every shot of the queue has a duration.
StartedOn(path) ==
    /\ LastRan
    /\ DurationsResolved(LastTimer)
    /\ VersionAt(LastTimer, last.before)
    /\ LastQueue[last.before + 1].version.movie_path = path

\* C16: a build sequence whose shots all have a duration has reported done or
\* is still registered, to be called again (it is never left unfinished with
\* its timer gone); it is finalized at most once, when it reports done, and
\* it is not registered any more after that.
C16_BuildReachesDone ==
    \A k \in 1..Len(timers) :
        DurationsResolved(timers[k]) =>
            /\ timers[k].state \in {"done", "registered"}
            /\ timers[k].finalized <= 1
            /\ timers[k].state = "done" => timers[k].finalized = 1
            /\ timers[k].finalized = 1 => timers[k].state = "done"

\* C18: the build step that starts on an entry whose version has a movie
\* leaves a strip of that version marked to_build_notes, and no strip has its
\* review built while it does not carry the flag.
C18_VersionMarked ==
    StartedOn("movie.mp4") =>
        \E c \in 1..Len(sequences) : \E s \in 1..Len(sequences[c].sequences) :
            /\ sequences[c].sequences[s].kitsu_version =
                  LastQueue[last.before + 1].version.id
            /\ sequences[c].sequences[s].to_build_notes

\* C19: the build step that starts on an entry whose version the host rejects
\* raises nothing and moves the cursor past that entry.
C19_RejectedEntrySkipped ==
    StartedOn("rejected.mp4") =>
        /\ last.error = ""
        /\ last.processed >= 1
        /\ counter > last.before

(***************************************************************************)
(* Claims on concurrent builds (under SharedSpec)                          *)
(***************************************************************************)

ContainersOf(name) == {c \in 1..Len(sequences) : sequences[c].kitsu_shot = name}

ChannelsList == <<<<"a", "n", "i", "m">>, <<"f", "x">>>>

\* get_selected_channels_list: the names of the selected channels, in the
\* order of scene.channels_list.
RECURSIVE get_selected_channels_list(_, _)
get_selected_channels_list(selected, n) ==
    IF n = 0 THEN <<>>
    ELSE IF n \in selected
    THEN Append(get_selected_channels_list(selected, n - 1), ChannelsList[n])
    ELSE get_selected_channels_list(selected, n - 1)

\* `[(None, None, None)] * tasks_total * shots_total`.
Placeholder == [task_index |-> NoneIndex, shot_index |-> 0 - 1, version |-> NoVersion]

\* "Match last version" is a TODO of the source: the tracker's last version of
\* channel `channel` for shot j, when it has one.
LastVersion(has, channel, j) ==
    IF has
    THEN Version(Numbered(<<"v">> \o channel, j), "movie.mp4", "validated")
    ELSE NoVersion

\* `for i, channel in ...`: the target list unpacks an item of the iterable.
\* An item of reversed(selected_channels) is a channel name, a str: it unpacks
\* into its characters when it has exactly two of them and raises ValueError
\* otherwise.
Unpack(item) ==
    IF Len(item) = 2
    THEN [error |-> "", i |-> StrIndex(item[1]), channel |-> <<item[2]>>]
    ELSE [error |-> "ValueError", i |-> NoneIndex, channel |-> <<>>]

\* `i == 0`.
IsZero(i) == i.kind = "int" /\ i.i = 0

\* `for j, shot in enumerate(kitsu_shots)` under channel index i, from shot j
\* on: the scene duration is summed in the pass of channel 0, the mapping is
\* filled at version_index.
RECURSIVE PlanShots(_, _, _, _, _, _)
PlanShots(p, i, channel, kitsu_shots, has, j) ==
    IF p.error # "" \/ j >= Len(kitsu_shots) THEN p
    ELSE LET duration == kitsu_shots[j + 1].duration
         IN  IF IsZero(i) /\ duration.none THEN [p EXCEPT !.error = "TypeError"]
             ELSE PlanShots(
                 [p EXCEPT
                    !.scene_frame_end = IF IsZero(i) THEN @ + duration.n ELSE @,
                    !.mapping[p.version_index + 1] =
                        [task_index |-> i, shot_index |-> j,
                         version |-> LastVersion(has, channel, j)],
                    !.version_index = @ + 1],
                 i, channel, kitsu_shots, has, j + 1)

\* `for i, channel in reversed(selected_channels)`, from the item at position
\* at (counted from 1) down to the first.
RECURSIVE PlanChannels(_, _, _, _, _)
PlanChannels(p, selected_channels, kitsu_shots, has, at) ==
    IF p.error # "" \/ at = 0 THEN p
    ELSE LET u == Unpack(selected_channels[at])
         IN  IF u.error # "" THEN [p EXCEPT !.error = u.error]
             ELSE PlanChannels(PlanShots(p, u.i, u.channel, kitsu_shots, has, 0),
                               selected_channels, kitsu_shots, has, at - 1)

\* "Generate and fill mapping".
Plan(selected_channels, kitsu_shots, has) ==
    PlanChannels(
        [error |-> "",
         mapping |-> [k \in 1..(Len(selected_channels) * Len(kitsu_shots)) |->
                         Placeholder],
         scene_frame_end |-> 0,
         version_index |-> 0],
        selected_channels, kitsu_shots, has, Len(selected_channels))

\* The timeline is reset, and the globals with it, only "if remaining
\* sequences".
ResetNeeded(seqs) == Len(seqs) > 0

\* Load Timeline's execute on the selected channels, the tracker's shots and
\* versions.  An exception leaves execute where it is raised: the timeline is
\* already reset and the tracks set, no timer is registered and the update
\* date is not saved.
LoadTimeline(selected) ==
    /\ Len(loads) < MaxLoads
    /\ LET kitsu_shots == tracker.kitsu_shots
           has == tracker.has
           selected_channels == get_selected_channels_list(selected, Len(ChannelsList))
           p == Plan(selected_channels, kitsu_shots, has)
           ok == p.error = ""
       IN  /\ sequences' = IF ResetNeeded(sequences) THEN <<>> ELSE sequences
           /\ counter' = IF ResetNeeded(sequences) THEN 0 ELSE counter
           /\ frame_offset' = IF ResetNeeded(sequences) THEN PyInt(0) ELSE frame_offset
           /\ tracks' = selected_channels
           /\ frame_end' = IF ok THEN p.scene_frame_end ELSE frame_end
           /\ timers' = IF ok
                        THEN Append(timers, Timer(selected_channels, kitsu_shots,
                                                  p.mapping, All))
                        ELSE timers
           /\ session_last_update' = IF ok THEN clock ELSE session_last_update
           /\ loads' = Append(loads,
                  [selected_channels |-> selected_channels,
                   error |-> p.error,
                   mapping |-> p.mapping,
                   timer |-> IF ok THEN Len(timers) + 1 ELSE 0,
                   date |-> clock,
                   unfinished |-> {k \in 1..Len(timers) :
                                      timers[k].state = "registered"}])
           /\ last' = [NoCall EXCEPT !.op = "load", !.error = p.error,
                                     !.seqs_before = sequences, !.date = clock,
                                     !.date_before = session_last_update]
    /\ clock' = clock + 1
    /\ UNCHANGED <<frame_current, playing, tracker, review,
                   session>>

(***************************************************************************)
(* blender_kitsu_utils.sequencer: edit_review                              *)
(***************************************************************************)

\* A tracker note: its identifier and the identifier of the note it replies
\* to (0 for none).
Note(id, parent_id) == [id |-> id, parent_id |-> parent_id]

\* previously_created_orio_note is read by edit_review and defined nowhere in
\* the sources ("if a note is a reply in a thread"): the ORIO note already
\* created in this review for the tracker note's parent, 0 (None) when there
\* is none yet.
previously_created_orio_note(created, note) ==
    IF \E k \in 1..Len(created) : created[k].id = note.parent_id
    THEN note.parent_id
    ELSE 0

\* "Create the contents": one pass over the notes; each gets an ORIO note with
\* an empty metadata, added to the review.
RECURSIVE AddNotes(_, _, _)
AddNotes(created, kitsu_notes, at) ==
    IF at > Len(kitsu_notes) THEN created
    ELSE AddNotes(
            Append(created,
                   [id |-> kitsu_notes[at].id,
                    parent_note |-> previously_created_orio_note(created,
                                                                 kitsu_notes[at]),
                    metadata |-> {}]),
            kitsu_notes, at + 1)

\* edit_review: None for a version without movie path, else the review with
\* its status (left unset for a status None, here "") and its notes.
edit_review(available_statuses, version, kitsu_notes) ==
    IF version.movie_path = ""
    THEN [none |-> TRUE, status |-> "", notes |-> <<>>]
    ELSE [none |-> FALSE,
          status |-> IF version.status = "" THEN ""
                     ELSE build_orio_status(available_statuses, version.status),
          notes |-> AddNotes(<<>>, kitsu_notes, 1)]

(***************************************************************************)
(* blender_kitsu_utils.sequencer: update_shots_timeline                    *)
(***************************************************************************)

\* update_shots_timeline: nothing to do without versions.  With versions, the
\* first pass of the loop reads the local `shot` (line 241) that only the
\* `for shot in kitsu_shots` of line 248 binds: UnboundLocalError, before any
\* shot stack is looked up or created.
update_shots_timeline(seqs, kitsu_versions, kitsu_shots, is_new_versions) ==
    IF Len(kitsu_versions) = 0
    THEN [error |-> "", sequences |-> seqs]
    ELSE [error |-> "UnboundLocalError", sequences |-> seqs]

(***************************************************************************)
(* stax_kitsu_ui.ops.ops_timeline: SEQUENCER_OT_update_timeline            *)
(***************************************************************************)

UpToDate == "Everything is up-to-date!"
Updated == "Session has been updated!"

\* poll: there are sequences in the editor.
UpdatePoll == Len(sequences) > 0

\* Update Timeline's execute on the versions and notes the tracker returns.
\* Nothing returned: the report and CANCELLED.  Otherwise the shots are
\* updated, the reviews built, the update date saved and the report made; an
\* exception leaves execute where it is raised, with no report of its own.
UpdateTimeline(kitsu_versions, kitsu_notes) ==
    /\ UpdatePoll
    /\ clock <= MaxLoads
    /\ LET nothing == Len(kitsu_versions) = 0 /\ Len(kitsu_notes) = 0
           shots == update_shots_timeline(sequences, kitsu_versions,
                                          tracker.kitsu_shots, TRUE)
           ok == ~nothing /\ shots.error = ""
       IN  /\ sequences' = IF nothing THEN sequences ELSE shots.sequences
           /\ session_last_update' = IF ok THEN clock ELSE session_last_update
           /\ last' = [NoCall EXCEPT
                  !.op = "update",
                  !.error = IF nothing THEN "" ELSE shots.error,
                  !.report = IF nothing THEN UpToDate
                             ELSE IF ok THEN Updated ELSE "",
                  !.seqs_before = sequences,
                  !.date = clock,
                  !.date_before = session_last_update,
                  !.kitsu_versions = Len(kitsu_versions),
                  !.kitsu_notes = Len(kitsu_notes)]
    /\ clock' = clock + 1
    /\ UNCHANGED <<counter, frame_offset, tracks, frame_end, frame_current,
                   playing, timers, loads, tracker, review,
                   session>>

\* What the tracker returns to an update: a version newer than the session's,
\* a note.
NewVersion == Version(<<"v", "0", "2">>, "movie.mp4", "validated")
UpdatedVersions == {<<>>, <<NewVersion>>}
UpdatedNotes == {<<>>, <<Note(1, 0)>>}

(***************************************************************************)
(* stax_kitsu_ui.ops.ops_timeline: SEQUENCER_OT_toggle_meta                *)
(***************************************************************************)

\* `version_name not in current_meta.sequences and f"stax.{version_name}" not
\* in current_meta.sequences`, version_name being the name of v's strip.
NotInMeta(meta, v) == ~VersionExists(meta, get_version_seq_name(v))

\* "Build only previous versions from current and with the correct amount":
\* the loop over the versions from version `at` on.  Every missing version
\* moves the existing strips of the meta up by one channel.
RECURSIVE MissingVersions(_, _, _, _)
MissingVersions(w, kitsu_versions, versions_amount, at) ==
    IF at > Len(kitsu_versions) THEN w
    ELSE IF w.versions_count < versions_amount /\ NotInMeta(w.meta, kitsu_versions[at])
    THEN MissingVersions(
            [missing_versions |-> Append(w.missing_versions, kitsu_versions[at]),
             versions_count |-> w.versions_count + 1,
             meta |-> [w.meta EXCEPT !.sequences =
                          [k \in 1..Len(@) |-> [@[k] EXCEPT !.channel = @ + 1]]]],
            kitsu_versions, versions_amount, at + 1)
    ELSE MissingVersions(w, kitsu_versions, versions_amount, at + 1)

\* execute on the active strip, shot stack c (a META strip without stax_kind):
\* the missing previous versions are collected, the existing strips moved up,
\* update_shots_timeline called with is_new_versions=False, and the target
\* channel read from the first strip of the meta (IndexError without strips).
ToggleMeta(c, versions_amount, kitsu_versions) ==
    /\ clock <= MaxLoads
    /\ sequences[c].stax_meta_usage = "Versions"
    /\ LET current_meta == sequences[c]
           expand == Len(current_meta.sequences) < versions_amount
           w == IF expand
                THEN MissingVersions([missing_versions |-> <<>>,
                                      versions_count |-> Len(current_meta.sequences),
                                      meta |-> current_meta],
                                     kitsu_versions, versions_amount, 1)
                ELSE [missing_versions |-> <<>>,
                      versions_count |-> Len(current_meta.sequences),
                      meta |-> current_meta]
           moved == [sequences EXCEPT ![c] = w.meta]
           shots == update_shots_timeline(moved, w.missing_versions, <<>>, FALSE)
           error == IF shots.error # "" THEN shots.error
                    ELSE IF Len(current_meta.sequences) = 0 THEN "IndexError"
                    ELSE ""
       IN  /\ sequences' = shots.sequences
           /\ last' = [NoCall EXCEPT
                  !.op = "toggle",
                  !.timer = c,
                  !.error = error,
                  !.seqs_before = sequences,
                  !.kitsu_versions = Len(w.missing_versions)]
    /\ clock' = clock + 1
    /\ UNCHANGED <<counter, frame_offset, tracks, frame_end, frame_current,
                   session_last_update, playing, timers, loads, tracker, review,
                   session>>

\* The previous versions the tracker returns for a shot stack.
OldVersion == Version(<<"v", "0", "0">>, "movie.mp4", "validated")
PreviousVersions == {<<>>, <<OldVersion>>}

(***************************************************************************)
(* LoadSpec: the operators and the timers they register.  The scene starts *)
(* empty, with a strip the host session already holds, or with a shot      *)
(* stack the session file holds.                                           *)
(***************************************************************************)

HostStrip == [name |-> <<"h", "o", "s", "t">>, channel |-> 1, frame_start |-> 0,
              frame_final_duration |-> 10, stax_meta_usage |-> "",
              kitsu_shot |-> <<>>, sequences |-> <<>>]

\* The strip of a version as create_version_sequence leaves it and
\* build_progressive flags it.
VersionStrip(kitsu_version, channel) ==
    [name |-> get_version_seq_name(kitsu_version),
     channel |-> channel,
     frame_start |-> 0,
     current_status |-> build_orio_status(get_kitsu_statuses, kitsu_version.status),
     kitsu_version |-> kitsu_version.id,
     lock |-> TRUE,
     to_build_notes |-> TRUE,
     reviews_built |-> 0]

\* The shot stack of shot sh00 on channel "fx" with the strip of one version,
\* as a session file saved earlier holds it.
SessionStack ==
    [name |-> get_shot_seq_name(<<"f", "x">>, Shot(Numbered(<<"s", "h">>, 0), PyInt(24))),
     channel |-> 2, frame_start |-> 0, frame_final_duration |-> 24,
     stax_meta_usage |-> "Versions", kitsu_shot |-> Numbered(<<"s", "h">>, 0),
     sequences |-> <<VersionStrip(Version(<<"v", "0", "1">>, "movie.mp4",
                                          "validated"), 1)>>]

LoadInit ==
    /\ counter = 0
    /\ frame_offset = PyInt(0)
    /\ sequences \in {<<>>, <<HostStrip>>, <<SessionStack>>}
    /\ tracks = <<>>
    /\ frame_end = 0
    /\ frame_current = 0
    /\ session_last_update = 0
    /\ playing = FALSE
    /\ timers = <<>>
    /\ last = NoCall
    /\ loads = <<>>
    /\ clock = 1
    /\ \E n \in 0..MaxShots, has \in BOOLEAN :
       \E bad \in 0..n, badDur \in {PyNone, PyInt(0)} :
          /\ bad = n => badDur = PyNone
          /\ tracker = [kitsu_shots |-> Shots(n, bad, badDur), has |-> has]
    /\ review = NoReview
    /\ session = NoSession

LoadNext ==
    \/ \E selected \in SUBSET (1..Len(ChannelsList)) : LoadTimeline(selected)
    \/ \E k \in 1..Len(timers) : BuildTick(k)
    \/ TogglePlayback
    \/ \E c \in 0..Len(sequences) : \E s \in MediaSequences(c) : FrameBuildReview(c, s)
    \/ \E kitsu_versions \in UpdatedVersions, kitsu_notes \in UpdatedNotes :
          UpdateTimeline(kitsu_versions, kitsu_notes)
    \/ \E c \in 1..Len(sequences), versions_amount \in 1..MaxVersions,
          kitsu_versions \in PreviousVersions :
          ToggleMeta(c, versions_amount, kitsu_versions)

LoadSpec == LoadInit /\ [][LoadNext]_vars


(***************************************************************************)
(* Claims on Load Timeline (under LoadSpec)                                *)
(***************************************************************************)

\* No shot stack holds two strips of the same version.
NoDuplicateVersions ==
    \A c \in 1..Len(sequences) :
        \A a, b \in 1..Len(sequences[c].sequences) :
            a # b => sequences[c].sequences[a].name # sequences[c].sequences[b].name

NoTimerRegistered == \A k \in 1..Len(timers) : timers[k].state # "registered"

C4_QueueOrder ==
    (tracker.kitsu_shots # <<>> /\ DurationsResolved(tracker)) =>
    \A l \in 1..Len(loads) :
        LET n == Len(loads[l].selected_channels)
            m == Len(tracker.kitsu_shots)
            mapping == loads[l].mapping
        IN  /\ loads[l].error = ""
            /\ Len(mapping) = n * m
            /\ \A k \in 1..Len(mapping) :
                  /\ mapping[k] # Placeholder
                  /\ mapping[k].task_index = IntIndex(n - 1 - ((k - 1) \div m))
                  /\ mapping[k].shot_index = (k - 1) % m


\* The ShotContainers among the strips `seqs`.
ShotContainers(seqs) ==
    {seqs[a] : a \in {b \in 1..Len(seqs) : seqs[b].stax_meta_usage = "Versions"}}

\* C11: after a Load Timeline or an Update Timeline that ended on an error,
\* the update date is the one from before the pass and every ShotContainer
\* from before the pass is still in the timeline, unchanged.
C11_AbortLeavesState ==
    (last.op \in {"load", "update"} /\ last.error # "") =>
        /\ session_last_update = last.date_before
        /\ ShotContainers(last.seqs_before) \subseteq ShotContainers(sequences)

\* The timeline one uninterrupted cycle builds for the selected channels: for
\* every channel and every shot one ShotContainer, on the lane of the channel
\* and at the sum of the durations of the shots before, holding one strip,
\* that of the shot's last version; and nothing else.
Uninterrupted(selected_channels) ==
    /\ Len(sequences) = Len(selected_channels) * Len(tracker.kitsu_shots)
    /\ \A i \in 1..Len(selected_channels), j \in 1..Len(tracker.kitsu_shots) :
          \E c \in 1..Len(sequences) :
             /\ sequences[c].name =
                   get_shot_seq_name(selected_channels[i], tracker.kitsu_shots[j])
             /\ sequences[c].channel = i
             /\ sequences[c].frame_start = DurationSum(tracker.kitsu_shots, j - 1)
             /\ Len(sequences[c].sequences) = 1
             /\ sequences[c].sequences[1].kitsu_version =
                   LastVersion(TRUE, selected_channels[i], j - 1).id

C14_OneNotification ==
    last.op = "update" =>
        /\ last.report \in {UpToDate, Updated}
        /\ last.report = UpToDate <=> (last.kitsu_versions = 0 /\ last.kitsu_notes = 0)
        /\ last.report = UpToDate =>
              /\ sequences = last.seqs_before
              /\ session_last_update = last.date_before
        /\ last.report = Updated => session_last_update = last.date

\* C15: while the update date is the one a Load Timeline saved, the queue of
\* that load has been drained: its timer has reported done.
C15_DateAfterDrain ==
    \A l \in 1..Len(loads) :
        (/\ loads[l].timer # 0
         /\ Len(loads[l].mapping) > 0
         /\ DurationsResolved(tracker)
         /\ session_last_update = loads[l].date) =>
            timers[loads[l].timer].state = "done"

\* The lanes of the strips of shot stack c.
Lanes(c) == {sequences[c].sequences[k].channel : k \in 1..Len(sequences[c].sequences)}

\* The strips of version v in shot stack c.
StripsOf(c, v) ==
    {k \in 1..Len(sequences[c].sequences) :
        sequences[c].sequences[k].kitsu_version = v.id}

\* C20: in every shot stack the strips are on distinct lanes, all at least 1;
\* the newer version an update delivers is on the lane above all the others of
\* its stack, and the previous version delivered when a stack is expanded is
\* on the lane below all the others.
C20_LanesByRecency ==
    /\ \A c \in 1..Len(sequences) :
          /\ Cardinality(Lanes(c)) = Len(sequences[c].sequences)
          /\ \A lane \in Lanes(c) : lane >= 1
    /\ (last.op = "update" /\ last.kitsu_versions > 0) =>
          \E c \in 1..Len(sequences) : \E k \in StripsOf(c, NewVersion) :
              \A lane \in Lanes(c) : lane <= sequences[c].sequences[k].channel
    /\ (last.op = "toggle" /\ last.kitsu_versions > 0) =>
          \E k \in StripsOf(last.timer, OldVersion) :
              \A lane \in Lanes(last.timer) :
                  lane >= sequences[last.timer].sequences[k].channel

\* C21: update_shots_timeline raises no error on the versions it is given:
\* called without shots (expanding a shot stack) it creates no container, and
\* called with the shots of the tracker (Update Timeline) it ends without an
\* error for every version delivered.
C21_ShotsParameter ==
    /\ (last.op = "toggle" /\ last.kitsu_versions > 0) =>
          /\ last.error # "UnboundLocalError"
          /\ ShotContainers(sequences) = ShotContainers(last.seqs_before)
    /\ (last.op = "update" /\ last.kitsu_versions > 0) =>
          last.error # "UnboundLocalError"


(***************************************************************************)
(* ReloadSpec: Load Timeline executed while, or after, the partial of an   *)
(* earlier load is scheduled.  The earlier partial holds a queue laid out  *)
(* with task and shot indexes; the new executions are those of execute.    *)
(***************************************************************************)

ReloadInit ==
    /\ counter = 0
    /\ frame_offset = PyInt(0)
    /\ sequences = <<>>
    /\ tracks = <<>>
    /\ frame_end = 0
    /\ frame_current = 0
    /\ session_last_update = 0
    /\ playing = FALSE
    /\ \E nShots \in 1..MaxShots, qlen \in 0..MaxShared, has \in BOOLEAN :
       \E vpos \in 0..qlen :
          /\ timers = <<Timer(Tasks(TasksFor(nShots, qlen)),
                              Shots(nShots, nShots, PyNone),
                              Queue(nShots, qlen, vpos,
                                    IF vpos = qlen THEN "" ELSE "movie.mp4"),
                              All)>>
          /\ tracker = [kitsu_shots |-> Shots(nShots, nShots, PyNone), has |-> has]
    /\ last = NoCall
    /\ loads = <<>>
    /\ clock = 1
    /\ review = NoReview
    /\ session = NoSession

ReloadNext ==
    \/ \E selected \in SUBSET (1..Len(ChannelsList)) : LoadTimeline(selected)
    \/ \E k \in 1..Len(timers) : BuildTick(k)
    \/ TogglePlayback
    \/ \E c \in 0..Len(sequences) : \E s \in MediaSequences(c) : FrameBuildReview(c, s)

ReloadSpec == ReloadInit /\ [][ReloadNext]_vars

RECURSIVE Processed(_, _)
Processed(batches, n) ==
    IF n = 0 THEN 0 ELSE batches[n] + Processed(batches, n - 1)

RawStatuses == {"validated", "revision_needed", "in_progress"}

\* The identifier of a parent the tracker never delivers.
Undelivered == MaxNotes + 1

\* n notes in the order the tracker delivers them; a note may reply to one
\* delivered before it, after it, or never.
Delivery(n, parents) == [id \in 1..n |-> Note(id, parents[id])]

ReviewInit ==
    /\ counter = 0
    /\ frame_offset = PyInt(0)
    /\ sequences = <<>>
    /\ tracks = <<>>
    /\ frame_end = 0
    /\ frame_current = 0
    /\ session_last_update = 0
    /\ playing = FALSE
    /\ timers = <<>>
    /\ last = NoCall
    /\ loads = <<>>
    /\ clock = 1
    /\ tracker = NoTracker
    /\ session = NoSession
    /\ \E approved \in SUBSET RawStatuses, rejected \in SUBSET RawStatuses :
          /\ Cardinality(approved) <= 1
          /\ Cardinality(rejected) <= 1
          /\ review = [ran |-> FALSE,
                       available_statuses |-> [approved |-> approved,
                                               rejected |-> rejected],
                       version |-> NoVersion, kitsu_notes |-> <<>>,
                       result |-> [none |-> TRUE, status |-> "", notes |-> <<>>]]

\* A caller builds the review of a version from the notes delivered for it.
EditReview(version, kitsu_notes) ==
    /\ review' = [review EXCEPT
            !.ran = TRUE,
            !.version = version,
            !.kitsu_notes = kitsu_notes,
            !.result = edit_review(review.available_statuses, version, kitsu_notes)]
    /\ UNCHANGED <<counter, frame_offset, sequences, tracks, frame_end,
                   frame_current, session_last_update, playing, timers, last,
                   loads, clock, tracker, session>>

ReviewNext ==
    \E status \in RawStatuses \cup {""}, path \in {"", "movie.mp4"},
       n \in 0..MaxNotes :
       \E parents \in [1..n -> (0..n) \cup {Undelivered}] :
          /\ \A id \in 1..n : parents[id] # id
          /\ path = "" => n = 0
          /\ EditReview(Version(<<"v">>, path, status), Delivery(n, parents))

ReviewSpec == ReviewInit /\ [][ReviewNext]_vars

\* C6: under a taxonomy whose approved and rejected sets are disjoint, the
\* review of a version with a movie and a status has the state approved for a
\* status of the approved set, rejected for one of the rejected set and
\* waiting review for any other, whatever reviews were built before.
C6_StatusMapping ==
    (/\ review.ran
     /\ ~review.result.none
     /\ review.version.status # ""
     /\ review.available_statuses.approved \cap review.available_statuses.rejected = {}) =>
        review.result.status =
            IF review.version.status \in review.available_statuses.approved
            THEN "approved"
            ELSE IF review.version.status \in review.available_statuses.rejected
            THEN "rejected"
            ELSE "waiting review"

\* C6's case: the spec's taxonomy, after a review that mapped to rejected.
C6_Witness ==
    /\ review.ran /\ ~review.result.none
    /\ review.available_statuses = [approved |-> {"validated"},
                                    rejected |-> {"revision_needed"}]
    /\ review.version.status = "revision_needed"
    /\ review.result.status = "rejected"

\* The delivered notes' identifiers.
Delivered == {review.kitsu_notes[k].id : k \in 1..Len(review.kitsu_notes)}

\* C7: every delivered note is in the review exactly once: under its declared
\* parent when that parent is delivered too, before or after it, and at the
\* root with an anomaly flag when its declared parent is never delivered.
C7_NotesReconciled ==
    (review.ran /\ ~review.result.none) =>
        \A k \in 1..Len(review.kitsu_notes) :
            LET note == review.kitsu_notes[k]
                at == {a \in 1..Len(review.result.notes) :
                          review.result.notes[a].id = note.id}
            IN  /\ Cardinality(at) = 1
                /\ \A a \in at :
                      /\ note.parent_id \in Delivered =>
                            review.result.notes[a].parent_note = note.parent_id
                      /\ (note.parent_id # 0 /\ note.parent_id \notin Delivered) =>
                            /\ review.result.notes[a].parent_note = 0
                            /\ "anomaly" \in review.result.notes[a].metadata


(***************************************************************************)
(* stax_kitsu_ui.ops.ops_session: the user configuration                   *)
(***************************************************************************)

\* The passwords a user types, and base64.b64encode of their UTF-8 bytes.
Passwords == {"", "pw", "new"}

encode_password(password) ==
    CASE password = "pw" -> "cHc="
      [] password = "new" -> "bmV3"
      [] OTHER -> ""

\* base64.b64decode of a stored password, "" for a falsy one.
decode_password(password) ==
    IF password = "" THEN ""
    ELSE CHOOSE p \in Passwords : encode_password(p) = password

\* config_data.get(key, default) for the three keys the module reads.
GetSaveCredentials(config_data) ==
    IF "save_credentials" \in config_data.keys THEN config_data.save_credentials
    ELSE FALSE

GetAutoLogin(config_data) ==
    IF "auto_login" \in config_data.keys THEN config_data.auto_login ELSE FALSE

GetPassword(config_data) ==
    IF "password" \in config_data.keys THEN config_data.password ELSE ""

\* write_user_config(additional_data=...): the keys given replace or extend
\* those of the configuration.
write_user_config(config, additional_data) ==
    [keys |-> config.keys \cup additional_data.keys,
     auto_login |-> IF "auto_login" \in additional_data.keys
                    THEN additional_data.auto_login ELSE config.auto_login,
     save_credentials |-> IF "save_credentials" \in additional_data.keys
                          THEN additional_data.save_credentials
                          ELSE config.save_credentials,
     password |-> IF "password" \in additional_data.keys
                  THEN additional_data.password ELSE config.password]

\* A handler at work: the operator's properties, the configuration and the
\* records written so far, each with the function that wrote it.
Handler(self, config) == [self |-> self, config |-> config, written |-> <<>>]

Write(h, by, additional_data) ==
    [h EXCEPT !.config = write_user_config(h.config, additional_data),
              !.written = Append(@, [by |-> by, data |-> additional_data])]

\* The additional_data of the two update callbacks.
Options(self) ==
    [keys |-> {"auto_login", "save_credentials"},
     auto_login |-> self.auto_login,
     save_credentials |-> self.save_credentials,
     password |-> ""]

\* The additional_data of execute.
Credentials(self) ==
    [keys |-> {"auto_login", "password", "save_credentials"},
     auto_login |-> self.auto_login,
     save_credentials |-> self.save_credentials,
     password |-> encode_password(self.password)]

(***************************************************************************)
(* stax_kitsu_ui.ops.ops_session: the update callbacks of the properties   *)
(***************************************************************************)

\* switch_save_credentials without its first statement.
switch_save_credentials_only_saves(h) ==
    Write(h, "switch_save_credentials", Options(h.self))

\* switch_save_credentials and switch_auto_login run after their property has
\* been set.  A property set inside a callback runs the callback of that
\* property before the statement that follows.
RECURSIVE switch_save_credentials(_), switch_auto_login(_)
switch_save_credentials(h) ==
    LET set == IF ~h.self.save_credentials
               THEN switch_auto_login([h EXCEPT !.self.auto_login = FALSE])
               ELSE h
    IN  Write(set, "switch_save_credentials", Options(set.self))

switch_auto_login(h) ==
    LET set == IF h.self.auto_login
               THEN switch_save_credentials([h EXCEPT !.self.save_credentials = TRUE])
               ELSE h
    IN  Write(set, "switch_auto_login", Options(set.self))

(***************************************************************************)
(* stax_kitsu_ui.ops.ops_session: WM_OT_production_manager_authentication  *)
(***************************************************************************)

\* invoke: the properties are initialised from the user preferences and the
\* configuration read at its start.
invoke(self, config, author_name) ==
    LET config_data == config
        saved == switch_save_credentials(
                    [Handler([self EXCEPT !.login = author_name], config)
                        EXCEPT !.self.save_credentials =
                                   GetSaveCredentials(config_data)])
    IN  IF saved.self.save_credentials
        THEN switch_auto_login(
                [saved EXCEPT
                    !.self.password = decode_password(GetPassword(config_data)),
                    !.self.auto_login = GetAutoLogin(config_data)])
        ELSE [saved EXCEPT !.self.password = ""]

\* execute, on what authenticate(login, password) answers: the configuration
\* is written and the session logged in, or the password is cleared and the
\* session logged out.
execute(h, authenticated) ==
    IF authenticated
    THEN [handler |-> Write(h, "execute", Credentials(h.self)),
          session_logged_in |-> TRUE, report |-> "INFO"]
    ELSE [handler |-> [h EXCEPT !.self.password = ""],
          session_logged_in |-> FALSE, report |-> "ERROR"]

\* The session after a handler: what it left, with the properties it found.
After(op, h, authenticated) ==
    [session EXCEPT !.self = h.self, !.config = h.config,
                    !.written = h.written, !.op = op,
                    !.authenticated = authenticated,
                    !.before = session.self]

Others ==
    <<counter, frame_offset, sequences, tracks, frame_end, frame_current,
      session_last_update, playing, timers, last, loads, clock, tracker, review>>

\* The user opens the authentication dialog.
Invoke ==
    /\ session.started
    /\ ~session.dialog
    /\ session' = [After("invoke",
                         invoke(session.self, session.config, session.author_name),
                         "")
                      EXCEPT !.dialog = TRUE]
    /\ UNCHANGED Others

\* The user types a login and a password in the dialog.
EditFields(login, password) ==
    /\ session.dialog
    /\ session' = After("edit",
                        Handler([session.self EXCEPT !.login = login,
                                                     !.password = password],
                                session.config),
                        "")
    /\ UNCHANGED Others

\* The user toggles Save Credentials in the dialog.
ToggleSaveCredentials ==
    /\ session.dialog
    /\ session' = After("toggle_save",
                        switch_save_credentials(
                           Handler([session.self EXCEPT !.save_credentials = ~@],
                                   session.config)),
                        "")
    /\ UNCHANGED Others

\* The user toggles Auto Log In in the dialog.
ToggleAutoLogin ==
    /\ session.dialog
    /\ session' = After("toggle_auto",
                        switch_auto_login(
                           Handler([session.self EXCEPT !.auto_login = ~@],
                                   session.config)),
                        "")
    /\ UNCHANGED Others

\* The user confirms the dialog: execute runs on the properties.
Execute(authenticated) ==
    /\ session.dialog
    /\ LET e == execute(Handler(session.self, session.config), authenticated)
       IN  session' = [After("execute", e.handler,
                             IF authenticated THEN "yes" ELSE "no")
                          EXCEPT !.author_name = session.self.login,
                                 !.session_logged_in = e.session_logged_in,
                                 !.dialog = FALSE]
    /\ UNCHANGED Others

\* The user cancels the dialog.
Cancel ==
    /\ session.dialog
    /\ session' = [After("cancel", Handler(session.self, session.config), "")
                      EXCEPT !.dialog = FALSE]
    /\ UNCHANGED Others

\* auto_login, the timer run once after the add-on is registered: with
\* auto_login in the configuration the operator is called with its four
\* properties, set in the order of their definition.
AutoLogin(authenticated) ==
    /\ ~session.started
    /\ LET config_data == session.config
           login == [Handler([NoProperties EXCEPT
                                 !.login = session.author_name,
                                 !.password = decode_password(GetPassword(config_data))],
                             session.config)
                        EXCEPT !.self.save_credentials =
                                   GetSaveCredentials(config_data)]
           saved == switch_save_credentials(login)
           auto == switch_auto_login([saved EXCEPT !.self.auto_login = TRUE])
           e == execute(auto, authenticated)
       IN  IF GetAutoLogin(config_data)
           THEN session' = [After("auto_login", e.handler,
                                  IF authenticated THEN "yes" ELSE "no")
                               EXCEPT !.author_name = auto.self.login,
                                      !.session_logged_in = e.session_logged_in,
                                      !.started = TRUE]
           ELSE /\ authenticated
                /\ session' = [After("auto_login",
                                     Handler(session.self, session.config), "")
                                  EXCEPT !.started = TRUE]
    /\ UNCHANGED Others

\* The host is closed and started again: the operator's properties are back
\* at their defaults, the configuration file is kept.
Restart ==
    /\ session.started
    /\ ~session.dialog
    /\ session' = [After("restart", Handler(NoProperties, session.config), "")
                      EXCEPT !.started = FALSE, !.session_logged_in = FALSE]
    /\ UNCHANGED Others

(***************************************************************************)
(* SessionSpec: the authentication dialog, the auto-login timer and the    *)
(* user configuration, from a first start without configuration.           *)
(***************************************************************************)

Logins == {"ana"}

SessionInit ==
    /\ counter = 0
    /\ frame_offset = PyInt(0)
    /\ sequences = <<>>
    /\ tracks = <<>>
    /\ frame_end = 0
    /\ frame_current = 0
    /\ session_last_update = 0
    /\ playing = FALSE
    /\ timers = <<>>
    /\ last = NoCall
    /\ loads = <<>>
    /\ clock = 1
    /\ tracker = NoTracker
    /\ review = NoReview
    /\ session = NoSession

SessionNext ==
    \/ Invoke
    \/ \E login \in Logins, password \in Passwords : EditFields(login, password)
    \/ ToggleSaveCredentials
    \/ ToggleAutoLogin
    \/ \E authenticated \in BOOLEAN : Execute(authenticated)
    \/ Cancel
    \/ \E authenticated \in BOOLEAN : AutoLogin(authenticated)
    \/ Restart

SessionSpec == SessionInit /\ [][SessionNext]_vars

\* The records the update callbacks wrote in the last handler.
ByCallbacks ==
    {k \in 1..Len(session.written) :
        session.written[k].by \in {"switch_save_credentials", "switch_auto_login"}}

\* C22: auto_login implies save_credentials in the operator's properties and
\* in every record the update callbacks write to the user configuration;
\* after Save Credentials is switched off Auto Log In is off, and after Auto
\* Log In is switched on Save Credentials is on.
C22_AutoLoginNeedsSave ==
    /\ session.self.auto_login => session.self.save_credentials
    /\ \A k \in ByCallbacks :
          session.written[k].data.auto_login =>
              session.written[k].data.save_credentials
    /\ (session.op = "toggle_save" /\ ~session.self.save_credentials) =>
          ~session.self.auto_login
    /\ (session.op = "toggle_auto" /\ session.self.auto_login) =>
          session.self.save_credentials

\* C22 witness: Save Credentials switched off while Auto Log In was on, Auto
\* Log In is off and the callbacks wrote the configuration.
C22_Witness ==
    /\ session.op = "toggle_save"
    /\ session.before.save_credentials
    /\ session.before.auto_login
    /\ ~session.self.save_credentials
    /\ ~session.self.auto_login
    /\ ByCallbacks # {}

\* C25: a record with a non-empty password is written to the user configuration only
\* by an authentication that succeeded with save_credentials on; a failed
\* authentication has execute write nothing, leaves the password field empty
\* and the session logged out.
C25_PasswordOnlyWhenSaved ==
    /\ \A k \in 1..Len(session.written) :
          (/\ "password" \in session.written[k].data.keys
           /\ session.written[k].data.password # "") =>
              /\ session.authenticated = "yes"
              /\ session.self.save_credentials
    /\ session.authenticated = "no" =>
          /\ \A k \in 1..Len(session.written) : session.written[k].by # "execute"
          /\ session.self.password = ""
          /\ ~session.session_logged_in

====
